---- MODULE Spec2Model ----
(***************************************************************************)
(* Model of the @mst markup transformation engine (src/src/tools/mst.ts).  *)
(*                                                                         *)
(* A file content is a sequence of symbols.  A symbol stands for a fixed   *)
(* piece of text: a single character ("/", "#", "{", "}", " ", newline,    *)
(* punctuation), a word of \w characters ("const", "Foo"), or one of the   *)
(* marker tokens of CommentType ("@mst remove-file", ...).  The content a  *)
(* symbol sequence stands for is the concatenation of its symbols.         *)
(***************************************************************************)
EXTENDS Integers, Sequences, FiniteSets, TLC

VARIABLES
    contents,   \* the content handed to the operation under study; for update,
                \* the content each file had before the run
    out,        \* the content the operation returned (<<>> before it ran)
    out2,       \* the result of applying the operation a second time
    pc,         \* position of the call: "start", the operation that ran, "call", "RangeError"
    cur,        \* the argument of the innermost frame of a recursive operation
    depth,      \* number of frames of the recursive operation on the stack
    fs,         \* file system: path -> content, or Absent
    task,       \* per-path position of update's task: "pending", "settled"
    report,     \* per-path list of directive kinds returned by update
    dryRun,     \* update's dryRun argument
    onlyMarkup, \* update's onlyMarkup argument
    ioLog,      \* per-path list of file system calls issued by the task
    args        \* the arguments the caller gave update: "true", "false" or "undefined"

vars == <<contents, out, out2, pc, cur, depth, fs, task, report, dryRun, onlyMarkup, ioLog, args>>

---------------------------------------------------------------------------
(* Symbols *)

NL == "\n"
Space == " "
Slash == "/"
Hash == "#"
LBrace == "{"
RBrace == "}"

\* CommentType, mst.ts:5-13
REMOVE_FILE == "@mst remove-file"
REMOVE_CURRENT_LINE == "@mst remove-current-line"
REMOVE_NEXT_LINE == "@mst remove-next-line"
REMOVE_BLOCK_START == "@mst remove-block-start"
REMOVE_BLOCK_END == "@mst remove-block-end"
OBSERVER_BLOCK_START == "@mst observer-block-start"
OBSERVER_BLOCK_END == "@mst observer-block-end"

CommentType ==
    { REMOVE_FILE, REMOVE_CURRENT_LINE, REMOVE_NEXT_LINE, REMOVE_BLOCK_START,
      REMOVE_BLOCK_END, OBSERVER_BLOCK_START, OBSERVER_BLOCK_END }

\* Symbols whose text begins with the four characters "@mst": the marker
\* tokens and a bare "@mst" that is followed by no directive name.
MstBare == "@mst"
MstSyms == CommentType \cup {MstBare}

\* Words: non-empty runs of \w characters.
WordSyms == { "a", "b", "x", "export", "const", "observer", "function", "Foo", "Bar",
              "React", "FC", "Props", "props", "return" }

\* Other single characters.
PunctSyms == { Slash, Hash, LBrace, RBrace, "(", ")", ":", "=", "<", ">", ",", "." }

WhiteSyms == { Space, NL }                       \* \s
AllSyms == MstSyms \cup WordSyms \cup PunctSyms \cup WhiteSyms
DotSyms == AllSyms \ { NL }                      \* .  (any character but a line break)

---------------------------------------------------------------------------
(* Bounds of the checked input sets *)

MaxSanLen == 5      \* symbols of a content handed to sanitize
MaxLines == 5       \* lines of a content handed to the line passes
MaxBlockLines == 6  \* lines of a content handed to removeBlock
MaxStack == 9       \* frames the engine's call stack holds before RangeError
MaxFiles == 2       \* files handed to update
MaxRemoveChunks == 3 \* chunks of a content handed to remove

---------------------------------------------------------------------------
(* Regular expressions, matched the way a backtracking engine matches them: *)
(* alternatives left to right, quantifiers greedy, first success wins.      *)
(* A pattern is a sequence of items.                                        *)

Lit(c) == [t |-> "set", cs |-> {c}, g |-> 0, sub |-> <<>>]
Set(S) == [t |-> "set", cs |-> S, g |-> 0, sub |-> <<>>]
Star(S) == [t |-> "star", cs |-> S, g |-> 0, sub |-> <<>>]        \* [S]*
Plus(S) == [t |-> "star", cs |-> S, g |-> 1, sub |-> <<>>]        \* [S]+
Opt(p) == [t |-> "alt", cs |-> {}, g |-> 0, sub |-> <<p, <<>> >>] \* (?:p)?
Alt(p, q) == [t |-> "alt", cs |-> {}, g |-> 0, sub |-> <<p, q>>]  \* (?:p|q)
Open(n) == [t |-> "open", cs |-> {}, g |-> n, sub |-> <<>>]       \* start of group n
Close(n) == [t |-> "close", cs |-> {}, g |-> n, sub |-> <<>>]     \* end of group n
Group(n, p) == <<Open(n)>> \o p \o <<Close(n)>>

NoMatch == [ok |-> FALSE, e |-> 0, caps |-> <<>>]
MaxGroups == 5
NoCaps == [n \in 1..MaxGroups |-> <<0, 0>>]

\* Length of the longest run of symbols of S in s starting at position i.
RECURSIVE RunLen(_, _, _)
RunLen(S, s, i) ==
    IF i <= Len(s) /\ s[i] \in S THEN 1 + RunLen(S, s, i + 1) ELSE 0

\* Match pattern p against s at position i; caps holds the groups so far.
\* Returns [ok, e, caps]: e is the position after the match.
RECURSIVE MatchAt(_, _, _, _)
RECURSIVE MatchStar(_, _, _, _, _, _)
MatchAt(p, s, i, caps) ==
    IF p = <<>> THEN [ok |-> TRUE, e |-> i, caps |-> caps]
    ELSE LET h == Head(p)
             rest == Tail(p)
         IN CASE h.t = "set" ->
                    IF i <= Len(s) /\ s[i] \in h.cs
                    THEN MatchAt(rest, s, i + 1, caps)
                    ELSE NoMatch
              [] h.t = "star" ->
                    MatchStar(rest, s, i, caps, RunLen(h.cs, s, i), h.g)
              [] h.t = "alt" ->
                    LET first == MatchAt(h.sub[1] \o rest, s, i, caps)
                    IN IF first.ok THEN first
                       ELSE MatchAt(h.sub[2] \o rest, s, i, caps)
              [] h.t = "open" ->
                    MatchAt(rest, s, i, [caps EXCEPT ![h.g] = <<i, i>>])
              [] h.t = "close" ->
                    MatchAt(rest, s, i, [caps EXCEPT ![h.g] = <<caps[h.g][1], i>>])

\* Greedy quantifier: take k symbols, the most first, and give back one at a
\* time down to min while the rest of the pattern fails.
MatchStar(rest, s, i, caps, k, min) ==
    IF k < min THEN NoMatch
    ELSE LET r == MatchAt(rest, s, i + k, caps)
         IN IF r.ok THEN r ELSE MatchStar(rest, s, i, caps, k - 1, min)

\* The text of group n ("" when the group took no part in the match).
Cap(s, caps, n) ==
    IF caps[n][1] = 0 THEN <<>> ELSE SubSeq(s, caps[n][1], caps[n][2] - 1)

\* String.prototype.match with a global pattern: truthy iff there is a match.
RECURSIVE HasMatchFrom(_, _, _)
HasMatchFrom(p, s, i) ==
    IF i > Len(s) + 1 THEN FALSE
    ELSE MatchAt(p, s, i, NoCaps).ok \/ HasMatchFrom(p, s, i + 1)

HasMatch(p, s) == HasMatchFrom(p, s, 1)

\* A replacement string is a sequence of items: literal text or $n.
Txt(c) == [g |-> 0, c |-> c]
Ref(n) == [g |-> n, c |-> ""]

RECURSIVE Expand(_, _, _)
Expand(tmpl, s, caps) ==
    IF tmpl = <<>> THEN <<>>
    ELSE (IF Head(tmpl).g = 0 THEN <<Head(tmpl).c>> ELSE Cap(s, caps, Head(tmpl).g))
         \o Expand(Tail(tmpl), s, caps)

\* String.prototype.replace with a global pattern: scan left to right, put
\* the expanded replacement in place of each match, resume right after it.
RECURSIVE ReplaceAll(_, _, _, _)
ReplaceAll(p, tmpl, s, i) ==
    IF i > Len(s) THEN <<>>
    ELSE LET m == MatchAt(p, s, i, NoCaps)
         IN IF m.ok /\ m.e > i
            THEN Expand(tmpl, s, m.caps) \o ReplaceAll(p, tmpl, s, m.e)
            ELSE <<s[i]>> \o ReplaceAll(p, tmpl, s, i + 1)

---------------------------------------------------------------------------
(* sanitize, mst.ts:34 and 154-157 *)

\* /(\/\/|#)\s*@mst.*|{?\/.*@mst.*\/}?/gm
mstMarkupRegex ==
    << Alt( << Alt(<<Lit(Slash), Lit(Slash)>>, <<Lit(Hash)>>),
               Star(WhiteSyms), Set(MstSyms), Star(DotSyms) >>,
            << Opt(<<Lit(LBrace)>>), Lit(Slash), Star(DotSyms), Set(MstSyms),
               Star(DotSyms), Lit(Slash), Opt(<<Lit(RBrace)>>) >> ) >>

sanitize(c) == ReplaceAll(mstMarkupRegex, <<>>, c, 1)

---------------------------------------------------------------------------
(* Lines: String.prototype.split("\n"), Array.prototype.join("\n"),        *)
(* String.prototype.includes                                               *)

RECURSIVE Split(_)
Split(s) ==
    LET n == RunLen(DotSyms, s, 1)
    IN IF n = Len(s) THEN <<s>>
       ELSE <<SubSeq(s, 1, n)>> \o Split(SubSeq(s, n + 2, Len(s)))

RECURSIVE Join(_)
Join(lines) ==
    IF lines = <<>> THEN <<>>
    ELSE IF Len(lines) = 1 THEN lines[1]
    ELSE lines[1] \o <<NL>> \o Join(Tail(lines))

includes(line, comment) == \E i \in 1..Len(line) : line[i] = comment

\* Array.prototype.filter by position: the elements of lines whose (1-based)
\* position is in keep, in order.
RECURSIVE FilterAt(_, _, _)
FilterAt(lines, keep, i) ==
    IF i > Len(lines) THEN <<>>
    ELSE (IF i \in keep THEN <<lines[i]>> ELSE <<>>) \o FilterAt(lines, keep, i + 1)

---------------------------------------------------------------------------
(* removeCurrentLine, mst.ts:40-44 *)

removeCurrentLine_KeepsLast(c) ==
    LET lines == Split(c)
        result == FilterAt(lines, { i \in 1..Len(lines) :
                      i = Len(lines) \/ ~includes(lines[i], REMOVE_CURRENT_LINE) }, 1)
    IN Join(result)

removeCurrentLine_FirstOnly(c) ==
    LET lines == Split(c)
        marked == { i \in 1..Len(lines) : includes(lines[i], REMOVE_CURRENT_LINE) }
    IN Join(FilterAt(lines, { i \in 1..Len(lines) :
                                i \notin marked \/ \E k \in marked : k < i }, 1))

removeCurrentLine(c) ==
    LET lines == Split(c)
        result == SelectSeq(lines, LAMBDA line : ~includes(line, REMOVE_CURRENT_LINE))
    IN Join(result)

---------------------------------------------------------------------------
(* removeNextLine, mst.ts:50-68.  index is the 0-based position of the code. *)

removeNextLine_IgnoresPrevious(c) ==
    LET lines == Split(c)
        result == FilterAt(lines, { i \in 1..Len(lines) :
                      ~includes(lines[i], REMOVE_NEXT_LINE) }, 1)
    IN Join(result)

removeNextLine_SkipsAfterDeletedMarker(c) ==
    LET lines == Split(c)
        marked(i) == includes(lines[i], REMOVE_NEXT_LINE)
        result == FilterAt(lines, { i \in 1..Len(lines) :
                      /\ ~marked(i)
                      /\ (i = 1 \/ ~marked(i - 1) \/ (i > 2 /\ marked(i - 2))) }, 1)
    IN Join(result)

removeNextLine(c) ==
    LET lines == Split(c)
        keepLine(index) ==
            LET line == lines[index + 1]
                prevDefined == index - 1 >= 0
                preserveCurrent == ~includes(line, REMOVE_NEXT_LINE)
                preservePrevious ==
                    prevDefined /\ ~includes(lines[index], REMOVE_NEXT_LINE)
            IN IF index = 0 THEN preserveCurrent
               ELSE preserveCurrent /\ preservePrevious
        result == FilterAt(lines, { i \in 1..Len(lines) : keepLine(i - 1) }, 1)
    IN Join(result)

---------------------------------------------------------------------------
(* removeBlock, mst.ts:74-103.  Indices are 0-based as in the code.        *)

NOT_FOUND == -1

\* Array.prototype.findIndex((line) => line.includes(c))
RECURSIVE findIndexFrom(_, _, _)
findIndexFrom(l, c, i) ==
    IF i >= Len(l) THEN NOT_FOUND
    ELSE IF includes(l[i + 1], c) THEN i
    ELSE findIndexFrom(l, c, i + 1)

findIndex(l, c) == findIndexFrom(l, c, 0)

Min(a, b) == IF a < b THEN a ELSE b
Max(a, b) == IF a > b THEN a ELSE b

\* Array.prototype.splice(start, deleteCount) for start >= 0: start is
\* clamped to the length and deleteCount to 0 .. length - start.
splice(lines, start, deleteCount) ==
    LET len == Len(lines)
        actualStart == Min(start, len)
        actualDelete == Min(Max(deleteCount, 0), len - actualStart)
    IN SubSeq(lines, 1, actualStart) \o SubSeq(lines, actualStart + actualDelete + 1, len)

\* One frame of removeBlock on argument c: the content after the splice
\* (updateContents) and whether the frame calls removeBlock again.
removeBlockFrame_NoPlusOne(c) ==
    LET lines == Split(c)
        blockStartIndex == findIndex(lines, REMOVE_BLOCK_START)
        blockEndIndex == findIndex(lines, REMOVE_BLOCK_END)
        blockExists == blockStartIndex # NOT_FOUND /\ blockEndIndex # NOT_FOUND
        spliced == IF blockExists
                   THEN splice(lines, blockStartIndex, blockEndIndex - blockStartIndex)
                   ELSE lines
    IN [ updateContents |-> Join(spliced),
         anotherBlockExists |-> findIndex(spliced, REMOVE_BLOCK_START) # NOT_FOUND
                                /\ findIndex(spliced, REMOVE_BLOCK_END) # NOT_FOUND ]

removeBlockFrame_SinglePass(c) ==
    LET lines == Split(c)
        blockStartIndex == findIndex(lines, REMOVE_BLOCK_START)
        blockEndIndex == findIndex(lines, REMOVE_BLOCK_END)
        blockExists == findIndex(lines, REMOVE_BLOCK_START) # NOT_FOUND
                       /\ blockEndIndex # NOT_FOUND
        blockLength == blockEndIndex - blockStartIndex + 1
        spliced == IF blockExists
                   THEN splice(lines, blockStartIndex, blockLength)
                   ELSE lines
    IN [ updateContents |-> Join(spliced), anotherBlockExists |-> FALSE ]

removeBlockFrame_OpenBlockToEnd(c) ==
    LET lines == Split(c)
        blockStartIndex == findIndex(lines, REMOVE_BLOCK_START)
        found == findIndex(lines, REMOVE_BLOCK_END)
        blockEndIndex == IF found = NOT_FOUND THEN Len(lines) - 1 ELSE found
        blockExists == blockStartIndex # NOT_FOUND
        blockLength == blockEndIndex - blockStartIndex + 1
        spliced == IF blockExists
                   THEN splice(lines, blockStartIndex, blockLength)
                   ELSE lines
    IN [ updateContents |-> Join(spliced),
         anotherBlockExists |-> findIndex(spliced, REMOVE_BLOCK_START) # NOT_FOUND
                                /\ findIndex(spliced, REMOVE_BLOCK_END) # NOT_FOUND ]

removeBlockFrame(c) ==
    LET lines == Split(c)
        blockStartIndex == findIndex(lines, REMOVE_BLOCK_START)
        blockEndIndex == findIndex(lines, REMOVE_BLOCK_END)
        blockExists == findIndex(lines, REMOVE_BLOCK_START) # NOT_FOUND
                       /\ blockEndIndex # NOT_FOUND
        blockLength == blockEndIndex - blockStartIndex + 1
        spliced == IF blockExists
                   THEN splice(lines, blockStartIndex, blockLength)
                   ELSE lines
    IN [ updateContents |-> Join(spliced),
         anotherBlockExists |-> findIndex(spliced, REMOVE_BLOCK_START) # NOT_FOUND
                                /\ findIndex(spliced, REMOVE_BLOCK_END) # NOT_FOUND ]

---------------------------------------------------------------------------
(* patchMSTObserverBlock, mst.ts:109-136 *)

\* \/\/\s*@mst observer-block-start\n(export\s+)?const\s+(\w+)
\* (:\s*[\w<>,\s]+)?\s*=\s*observer\(function\s+(\w+)(\([^)]*\))
startBlockRegex ==
    << Lit(Slash), Lit(Slash), Star(WhiteSyms), Lit(OBSERVER_BLOCK_START), Lit(NL),
       Opt(Group(1, <<Lit("export"), Plus(WhiteSyms)>>)),
       Lit("const"), Plus(WhiteSyms) >>
    \o Group(2, <<Plus(WordSyms)>>)
    \o << Opt(Group(3, <<Lit(":"), Star(WhiteSyms),
                         Plus(WordSyms \cup {"<", ">", ","} \cup WhiteSyms)>>)),
          Star(WhiteSyms), Lit("="), Star(WhiteSyms),
          Lit("observer"), Lit("("), Lit("function"), Plus(WhiteSyms) >>
    \o Group(4, <<Plus(WordSyms)>>)
    \o Group(5, <<Lit("("), Star(AllSyms \ {")"}), Lit(")")>>)

\* "$1const $2$3 = $5 =>"
startBlockReplacement ==
    << Ref(1), Txt("const"), Txt(Space), Ref(2), Ref(3), Txt(Space), Txt("="),
       Txt(Space), Ref(5), Txt(Space), Txt("="), Txt(">") >>

\* \}\)\s*\/\/\s*@mst observer-block-end
endBlockRegex ==
    << Lit(RBrace), Lit(")"), Star(WhiteSyms), Lit(Slash), Lit(Slash),
       Star(WhiteSyms), Lit(OBSERVER_BLOCK_END) >>

endBlockReplacement == <<Txt(RBrace)>>

hasObserverBlock(value) == HasMatch(startBlockRegex, value) /\ HasMatch(endBlockRegex, value)

\* One frame of patchMSTObserverBlock on argument c: the content the frame
\* ends with and whether it calls patchMSTObserverBlock again.
patchFrame_RecursesUnchanged(c) ==
    IF ~hasObserverBlock(c)
    THEN [ updateContents |-> c, recurse |-> FALSE ]
    ELSE [ updateContents |-> c, recurse |-> TRUE ]

patchFrame(c) ==
    IF ~hasObserverBlock(c)
    THEN [ updateContents |-> c, recurse |-> FALSE ]
    ELSE LET replaced == ReplaceAll(startBlockRegex, startBlockReplacement, c, 1)
             updateContents == ReplaceAll(endBlockRegex, endBlockReplacement, replaced, 1)
         IN [ updateContents |-> updateContents,
              recurse |-> hasObserverBlock(updateContents) ]

---------------------------------------------------------------------------
(* The recursive passes as functions, and remove, mst.ts:143-147.          *)
(* A result is [ok, v]: ok is FALSE when the call ended in RangeError.     *)

RECURSIVE removeBlockRun(_, _)
removeBlockRun(c, d) ==
    LET f == removeBlockFrame(c)
    IN IF ~f.anotherBlockExists THEN [ok |-> TRUE, v |-> f.updateContents]
       ELSE IF d >= MaxStack THEN [ok |-> FALSE, v |-> <<>>]
       ELSE removeBlockRun(f.updateContents, d + 1)

removeBlock(c) == removeBlockRun(c, 1)

RECURSIVE patchRun(_, _)
patchRun(c, d) ==
    LET f == patchFrame(c)
    IN IF ~f.recurse THEN [ok |-> TRUE, v |-> f.updateContents]
       ELSE IF d >= MaxStack THEN [ok |-> FALSE, v |-> <<>>]
       ELSE patchRun(f.updateContents, d + 1)

patchMSTObserverBlock(c) == patchRun(c, 1)

remove(c) ==
    LET result == removeBlock(removeNextLine(removeCurrentLine(c)))
    IN IF result.ok THEN patchMSTObserverBlock(result.v) ELSE result

---------------------------------------------------------------------------
(* update, mst.ts:172-197: the defaults of the destructured parameters and *)
(* the arguments passed on to updateFiles.                                 *)

update_PassesSanitizeMode(a) ==
    [ dryRun |-> IF a.dryRun = "undefined" THEN TRUE ELSE a.dryRun = "true",
      onlyMarkup |-> TRUE ]

update_AlwaysApplies(a) ==
    [ dryRun |-> FALSE,
      onlyMarkup |-> IF a.onlyMarkup = "undefined" THEN FALSE ELSE a.onlyMarkup = "true" ]

update_DefaultsToApply(a) ==
    [ dryRun |-> a.dryRun = "true",
      onlyMarkup |-> IF a.onlyMarkup = "undefined" THEN FALSE ELSE a.onlyMarkup = "true" ]

update(a) ==
    [ dryRun |-> IF a.dryRun = "undefined" THEN TRUE ELSE a.dryRun = "true",
      onlyMarkup |-> IF a.onlyMarkup = "undefined" THEN FALSE ELSE a.onlyMarkup = "true" ]

---------------------------------------------------------------------------
(* find, mst.ts:159-170, and DEFAULT_MATCHING_GLOBS, mst.ts:15-26.  A path  *)
(* is a sequence of segments; a glob '**/s1/.../sn' or '**/s1/.../sn{,/**}' *)
(* is its negation flag, the names each segment si accepts, and whether it  *)
(* also covers everything below (deep).                                     *)

Glob(neg, segments, below) == [ negate |-> neg, segs |-> segments, deep |-> below ]

\* The names '*.xcworkspace' accepts among the names in use.
XcWorkspaces == { "App.xcworkspace" }

DEFAULT_MATCHING_GLOBS ==
    << Glob(TRUE, << {".DS_Store"} >>, FALSE),
       Glob(TRUE, << {".expo"} >>, TRUE),
       Glob(TRUE, << {".git"} >>, TRUE),
       Glob(TRUE, << {".vscode"} >>, TRUE),
       Glob(TRUE, << {"node_modules"} >>, TRUE),
       Glob(TRUE, << {"ios"}, {"build"} >>, TRUE),
       Glob(TRUE, << {"ios"}, {"Pods"} >>, TRUE),
       Glob(TRUE, << {"ios"}, XcWorkspaces >>, TRUE),
       Glob(TRUE, << {"android"}, {"build"} >>, TRUE),
       Glob(TRUE, << {"android"}, {"app"}, {"build"} >>, TRUE) >>

\* The body of glob g (its text without the leading '!') matches path.
globBodyMatches(g, path) ==
    \E i \in 1..Len(path) :
        LET last == i + Len(g.segs) - 1
        IN /\ last <= Len(path)
           /\ \A k \in 1..Len(g.segs) : path[i + k - 1] \in g.segs[k]
           /\ g.deep \/ last = Len(path)

\* The matcher of filesystem.find: the patterns are tried in order; a list
\* that starts with a negated pattern accepts everything and then rejects,
\* a negated pattern rejects what its body matches.
RECURSIVE performMatch(_, _, _, _, _)
performMatch(patterns, path, i, negation, weHaveMatch) ==
    IF i > Len(patterns) THEN weHaveMatch
    ELSE LET g == patterns[i]
             mode == negation \/ g.negate
             have == weHaveMatch \/ (g.negate /\ i = 1)
             currentMatch == IF g.negate THEN ~globBodyMatches(g, path)
                             ELSE globBodyMatches(g, path)
         IN IF mode /\ have /\ ~currentMatch THEN FALSE
            ELSE performMatch(patterns, path, i + 1, mode,
                              IF ~mode /\ ~have THEN currentMatch ELSE have)

\* filesystem.cwd(targetDir).find({ matching, recursive: true, files,
\* directories }): the paths, relative to targetDir, of the entries of the
\* tree of the asked kinds that the matcher accepts.
jetpackFind(tree, opts) ==
    { e.path : e \in { x \in tree :
                          /\ \/ opts.files /\ x.kind = "file"
                             \/ opts.directories /\ x.kind = "dir"
                          /\ performMatch(opts.matching, x.path, 1, FALSE, FALSE) } }

\* pathlib.join(targetDir, path)
pathJoin(dir, path) == dir \o path

\* The optional parameter matching: left out, or a list of globs.
Undefined == [ given |-> FALSE, list |-> <<>> ]
Supplied(globs) == [ given |-> TRUE, list |-> globs ]

find_MergesDefaults(tree, targetDir, matching) ==
    { pathJoin(targetDir, path) :
        path \in jetpackFind(tree,
                    [ matching |-> IF ~matching.given THEN DEFAULT_MATCHING_GLOBS
                                   ELSE DEFAULT_MATCHING_GLOBS \o matching.list,
                      recursive |-> TRUE, files |-> TRUE, directories |-> FALSE ]) }

find(tree, targetDir, matching) ==
    { pathJoin(targetDir, path) :
        path \in jetpackFind(tree,
                    [ matching |-> IF ~matching.given THEN DEFAULT_MATCHING_GLOBS
                                   ELSE matching.list,
                      recursive |-> TRUE, files |-> TRUE, directories |-> FALSE ]) }

---------------------------------------------------------------------------
(* The checked input sets *)

\* All symbol sequences over A of length at most n.
Strs(A, n) == UNION { [1..k -> A] : k \in 0..n }

\* All contents of 1..n lines, each line drawn from kinds.
Texts(kinds, n) == { Join(ls) : ls \in UNION { [1..k -> kinds] : k \in 1..n } }

NoFiles ==
    /\ fs = <<>>
    /\ task = <<>>
    /\ report = <<>>
    /\ ioLog = <<>>
    /\ dryRun = TRUE
    /\ onlyMarkup = FALSE
    /\ args = <<>>

fileVars == <<fs, task, report, ioLog, dryRun, onlyMarkup, args>>

InitCall(inputs) ==
    /\ contents \in inputs
    /\ out = <<>>
    /\ out2 = <<>>
    /\ pc = "start"
    /\ cur = <<>>
    /\ depth = 0
    /\ NoFiles

---------------------------------------------------------------------------
(* Specification of sanitize: one call, then a second call on its result. *)

SanAlphabet == { Slash, Hash, Space, NL, LBrace, RBrace, "a", REMOVE_FILE }

InitSanitize == InitCall(Strs(SanAlphabet, MaxSanLen))

Sanitize ==
    /\ pc = "start"
    /\ out' = sanitize(contents)
    /\ pc' = "sanitize"
    /\ UNCHANGED <<contents, out2, cur, depth, fileVars>>

SanitizeAgain ==
    /\ pc = "sanitize"
    /\ out2' = sanitize(out)
    /\ pc' = "sanitizeTwice"
    /\ UNCHANGED <<contents, out, cur, depth, fileVars>>

NextSanitize == Sanitize \/ SanitizeAgain

SpecSanitize == InitSanitize /\ [][NextSanitize]_vars

---------------------------------------------------------------------------
(* Specification of the two line filters. *)

CurrentLineMarked == <<"a", Space, Slash, Slash, Space, REMOVE_CURRENT_LINE>>
NextLineMarked == <<"a", Space, Slash, Slash, Space, REMOVE_NEXT_LINE>>

LineKinds == { <<>>, <<"a">>, <<"b">>, CurrentLineMarked, NextLineMarked }

InitLines == InitCall(Texts(LineKinds, MaxLines))

RemoveCurrentLine ==
    /\ pc = "start"
    /\ out' = removeCurrentLine(contents)
    /\ pc' = "removeCurrentLine"
    /\ UNCHANGED <<contents, out2, cur, depth, fileVars>>

RemoveNextLine ==
    /\ pc = "start"
    /\ out' = removeNextLine(contents)
    /\ pc' = "removeNextLine"
    /\ UNCHANGED <<contents, out2, cur, depth, fileVars>>

NextLines == RemoveCurrentLine \/ RemoveNextLine

SpecLines == InitLines /\ [][NextLines]_vars

---------------------------------------------------------------------------
(* Specification of removeBlock: one step per frame of the recursion.      *)
(* The call at mst.ts:99 is in tail position, so the innermost frame's     *)
(* result is the result of the whole call.                                 *)

BlockStartLine == <<Slash, Slash, Space, REMOVE_BLOCK_START>>
BlockEndLine == <<Slash, Slash, Space, REMOVE_BLOCK_END>>

BlockLineKinds == { <<"a">>, <<"b">>, BlockStartLine, BlockEndLine }

InitBlock == InitCall(Texts(BlockLineKinds, MaxBlockLines))

RemoveBlockCall ==
    /\ pc = "start"
    /\ pc' = "call"
    /\ cur' = contents
    /\ depth' = 1
    /\ UNCHANGED <<contents, out, out2, fileVars>>

\* mst.ts:98-100: another block exists, removeBlock calls itself.
RemoveBlockRecurse ==
    /\ pc = "call"
    /\ removeBlockFrame(cur).anotherBlockExists
    /\ depth < MaxStack
    /\ cur' = removeBlockFrame(cur).updateContents
    /\ depth' = depth + 1
    /\ UNCHANGED <<contents, out, out2, pc, fileVars>>

\* The recursion needs a frame the stack no longer has: the engine throws
\* RangeError (maximum call stack size exceeded) and no frame returns.
RemoveBlockOverflow ==
    /\ pc = "call"
    /\ removeBlockFrame(cur).anotherBlockExists
    /\ depth >= MaxStack
    /\ pc' = "RangeError"
    /\ UNCHANGED <<contents, out, out2, cur, depth, fileVars>>

\* mst.ts:102
RemoveBlockReturn ==
    /\ pc = "call"
    /\ ~removeBlockFrame(cur).anotherBlockExists
    /\ out' = removeBlockFrame(cur).updateContents
    /\ pc' = "removeBlock"
    /\ UNCHANGED <<contents, out2, cur, depth, fileVars>>

NextBlock ==
    RemoveBlockCall \/ RemoveBlockRecurse \/ RemoveBlockOverflow \/ RemoveBlockReturn

SpecBlock == InitBlock /\ [][NextBlock]_vars

---------------------------------------------------------------------------
(* Specification of patchMSTObserverBlock: one step per frame.  Contents   *)
(* are one or two component declarations assembled from the variants below. *)

ObsMarkerLines ==
    { <<Slash, Slash, Space, OBSERVER_BLOCK_START, NL>>,
      <<Slash, Slash, OBSERVER_BLOCK_START, NL>>,
      <<>> }
ObsExports == { <<"export", Space>>, <<>> }
ObsAnnotations ==
    { <<>>,
      <<":", Space, "FC", "<", "Props", ">">>,
      <<":", Space, "React", ".", "FC", "<", "Props", ">">> }
ObsWrappers ==
    { <<Space, "=", Space, "observer", "(", "function", Space, "Foo">>,
      <<"=", "observer", "(", "function", Space, "Bar">> }
\* The last variant is a parameter list whose text is itself a start signature.
ObsParams ==
    { <<"(", "props", ")">>,
      <<"(", ")">>,
      <<"(", Slash, Slash, OBSERVER_BLOCK_START, NL, "const", Space, "Bar", "=",
        "observer", "(", "function", Space, "Bar", "(", ")">> }
ObsBody == <<Space, LBrace, NL, "return", Space, "a", NL>>
ObsClosings ==
    { <<RBrace, ")", Space, Slash, Slash, Space, OBSERVER_BLOCK_END>>,
      <<RBrace, ")", Slash, Slash, OBSERVER_BLOCK_END>>,
      <<RBrace, ")">>,
      <<RBrace, ")", Slash, Slash, OBSERVER_BLOCK_END, ")", Slash, Slash, OBSERVER_BLOCK_END>> }

ObsComponent(m, e, a, w, p, c) ==
    m \o e \o <<"const", Space, "Foo">> \o a \o w \o p \o ObsBody \o c

ObsComponents ==
    { ObsComponent(m, e, a, w, p, c) :
        m \in ObsMarkerLines, e \in ObsExports, a \in ObsAnnotations,
        w \in ObsWrappers, p \in ObsParams, c \in ObsClosings }

\* The second component of a two-component content.
ObsSeconds ==
    { ObsComponent(m, <<>>, <<>>, <<Space, "=", Space, "observer", "(", "function", Space, "Foo">>,
                   <<"(", ")">>, c) :
        m \in { <<Slash, Slash, Space, OBSERVER_BLOCK_START, NL>>, <<>> },
        c \in { <<RBrace, ")", Space, Slash, Slash, Space, OBSERVER_BLOCK_END>>, <<RBrace, ")">> } }

MaxComponents == 2

ObsInputs ==
    ObsComponents
    \cup (IF MaxComponents >= 2
          THEN { a \o <<NL>> \o b : a \in ObsComponents, b \in ObsSeconds }
          ELSE {})

InitObserver == InitCall(ObsInputs)

PatchCall ==
    /\ pc = "start"
    /\ pc' = "patch"
    /\ cur' = contents
    /\ depth' = 1
    /\ UNCHANGED <<contents, out, out2, fileVars>>

\* mst.ts:131-133
PatchRecurse ==
    /\ pc = "patch"
    /\ patchFrame(cur).recurse
    /\ depth < MaxStack
    /\ cur' = patchFrame(cur).updateContents
    /\ depth' = depth + 1
    /\ UNCHANGED <<contents, out, out2, pc, fileVars>>

\* mst.ts:122-124 and 135
PatchReturn ==
    /\ pc = "patch"
    /\ ~patchFrame(cur).recurse
    /\ out' = patchFrame(cur).updateContents
    /\ pc' = "patchMSTObserverBlock"
    /\ UNCHANGED <<contents, out2, cur, depth, fileVars>>

NextObserver == PatchCall \/ PatchRecurse \/ PatchReturn

SpecObserver == InitObserver /\ [][NextObserver]_vars

---------------------------------------------------------------------------
(* Specification of the batch update.  update hands its arguments to       *)
(* updateFiles of ./markup, which runs one task per file path and joins    *)
(* them; a task is one step per await.                                     *)

Paths == 1..MaxFiles

FileContents ==
    { <<"a", NL, "b">>,
      <<Slash, Slash, Space, REMOVE_FILE, NL, "a">>,
      <<Hash, Space, REMOVE_FILE, NL, "a", Space, Slash, Slash, Space, REMOVE_CURRENT_LINE, NL, "b">>,
      <<"x", "=", REMOVE_FILE, NL, "a">>,
      Join(<< <<"a">>, BlockStartLine, <<"b">>, BlockEndLine,
              ObsComponent(<<Slash, Slash, Space, OBSERVER_BLOCK_START, NL>>, <<>>, <<>>,
                           <<Space, "=", Space, "observer", "(", "function", Space, "Foo">>,
                           <<"(", ")">>,
                           <<RBrace, ")", Space, Slash, Slash, Space, OBSERVER_BLOCK_END>>) >>),
      Join(<< NextLineMarked, CurrentLineMarked, <<"b">> >>),
      Join(<< BlockEndLine, <<"a">>, BlockStartLine >>),
      <<"a", Space, Slash, Slash, Space, MstBare, Space, "b">> }

Optional == { "true", "false", "undefined" }

\* The files on disk; filePaths[p] is the file the p-th path names.
Files == 1..MaxFiles
file_First(p) == args.filePaths[1]
file(p) == args.filePaths[p]

\* One path per file, in order.
EachFileOnce == [p \in Paths |-> p]

InitUpdate ==
    /\ contents \in [Files -> FileContents]
    /\ fs = [f \in Files |-> [exists |-> TRUE, data |-> contents[f]]]
    /\ args \in [dryRun : Optional, onlyMarkup : Optional, filePaths : {EachFileOnce}]
    /\ dryRun = TRUE
    /\ onlyMarkup = FALSE
    /\ task = [p \in Paths |-> "idle"]
    /\ report = [p \in Paths |-> <<>>]
    /\ ioLog = [p \in Paths |-> <<>>]
    /\ pc = "start"
    /\ out = <<>>
    /\ out2 = <<>>
    /\ cur = <<>>
    /\ depth = 0

callVars == <<contents, out, out2, cur, depth, args>>

\* filePaths.map(async (path) => ...): every task starts.
UpdateCall ==
    /\ pc = "start"
    /\ pc' = "running"
    /\ dryRun' = update(args).dryRun
    /\ onlyMarkup' = update(args).onlyMarkup
    /\ task' = [p \in Paths |-> "pending"]
    /\ UNCHANGED <<callVars, fs, report, ioLog>>

\* patching.exists(path, text): the file is there and its content has text.
fileHas(p, marker) == fs[file(p)].exists /\ includes(fs[file(p)].data, marker)

\* The kinds the per-line, per-block and observer passes act on, in the
\* order they are reported.
operations ==
    << REMOVE_CURRENT_LINE, REMOVE_NEXT_LINE, REMOVE_BLOCK_START, REMOVE_BLOCK_END,
       OBSERVER_BLOCK_START, OBSERVER_BLOCK_END >>

shouldUpdate_Always(p) == fs[file(p)].exists

shouldUpdate(p) ==
    /\ fs[file(p)].exists
    /\ IF onlyMarkup THEN HasMatch(mstMarkupRegex, fs[file(p)].data)
       ELSE \E k \in 1..Len(operations) : includes(fs[file(p)].data, operations[k])

\* The file carries the remove-file marker: delete it (remove mode) or
\* strip its markers (sanitize mode); report only the remove-file kind.
TaskRemoveFile(p) ==
    /\ pc = "running"
    /\ task[p] = "pending"
    /\ fileHas(p, REMOVE_FILE)
    /\ IF dryRun
       THEN UNCHANGED <<fs, ioLog>>
       ELSE IF onlyMarkup
            THEN /\ fs' = [fs EXCEPT ![file(p)].data = sanitize(fs[file(p)].data)]
                 /\ ioLog' = [ioLog EXCEPT ![p] = @ \o <<"read", "write">>]
            ELSE /\ fs' = [fs EXCEPT ![file(p)] = [exists |-> FALSE, data |-> <<>>]]
                 /\ ioLog' = [ioLog EXCEPT ![p] = @ \o <<"remove">>]
    /\ report' = [report EXCEPT ![p] = <<REMOVE_FILE>>]
    /\ task' = [task EXCEPT ![p] = "fulfilled"]
    /\ UNCHANGED <<callVars, pc, dryRun, onlyMarkup>>

TaskNoRemoveFile(p) ==
    /\ pc = "running"
    /\ task[p] = "pending"
    /\ ~fileHas(p, REMOVE_FILE)
    /\ task' = [task EXCEPT ![p] = "checked"]
    /\ UNCHANGED <<callVars, pc, fs, report, ioLog, dryRun, onlyMarkup>>

\* Detection: the kinds present in the content, in the order of operations.
TaskDetect(p) ==
    /\ pc = "running"
    /\ task[p] = "checked"
    /\ shouldUpdate(p)
    /\ report' = [report EXCEPT ![p] =
                     SelectSeq(operations, LAMBDA o : includes(fs[file(p)].data, o))]
    /\ ioLog' = [ioLog EXCEPT ![p] = @ \o <<"read">>]
    /\ task' = [task EXCEPT ![p] = IF dryRun THEN "fulfilled" ELSE "updating"]
    /\ UNCHANGED <<callVars, pc, fs, dryRun, onlyMarkup>>

\* No directive in the file: reported with no kind, not touched.
TaskNoMatch(p) ==
    /\ pc = "running"
    /\ task[p] = "checked"
    /\ ~shouldUpdate(p)
    /\ task' = [task EXCEPT ![p] = "fulfilled"]
    /\ UNCHANGED <<callVars, pc, fs, report, ioLog, dryRun, onlyMarkup>>

\* A rewrite limited to the line and block passes.
TaskUpdate_SkipsObserver(p) ==
    /\ pc = "running"
    /\ task[p] = "updating"
    /\ LET new == IF onlyMarkup THEN [ok |-> TRUE, v |-> sanitize(fs[file(p)].data)]
                  ELSE removeBlock(removeNextLine(removeCurrentLine(fs[file(p)].data)))
       IN IF new.ok
          THEN /\ fs' = [fs EXCEPT ![file(p)].data = new.v]
               /\ ioLog' = [ioLog EXCEPT ![p] = @ \o <<"update">>]
               /\ task' = [task EXCEPT ![p] = "fulfilled"]
          ELSE /\ task' = [task EXCEPT ![p] = "rejected"]
               /\ UNCHANGED <<fs, ioLog>>
    /\ UNCHANGED <<callVars, pc, report, dryRun, onlyMarkup>>

\* patching.update(path, onlyMarkup ? sanitize : remove)
TaskUpdate(p) ==
    /\ pc = "running"
    /\ task[p] = "updating"
    /\ LET new == IF onlyMarkup THEN [ok |-> TRUE, v |-> sanitize(fs[file(p)].data)]
                  ELSE remove(fs[file(p)].data)
       IN IF new.ok
          THEN /\ fs' = [fs EXCEPT ![file(p)].data = new.v]
               /\ ioLog' = [ioLog EXCEPT ![p] = @ \o <<"update">>]
               /\ task' = [task EXCEPT ![p] = "fulfilled"]
          ELSE /\ task' = [task EXCEPT ![p] = "rejected"]
               /\ UNCHANGED <<fs, ioLog>>
    /\ UNCHANGED <<callVars, pc, report, dryRun, onlyMarkup>>

TaskFail_AbortsSiblings(p) ==
    /\ pc = "running"
    /\ task[p] \in {"pending", "checked", "updating"}
    /\ task' = [q \in Paths |->
                   IF q = p \/ task[q] # "fulfilled" THEN "rejected" ELSE task[q]]
    /\ ioLog' = [ioLog EXCEPT ![p] = @ \o <<"throw">>]
    /\ UNCHANGED <<callVars, pc, fs, report, dryRun, onlyMarkup>>

\* A file system call of the task throws (the path cannot be read, written
\* or deleted): the task's promise rejects and the file is as it was.
TaskFail(p) ==
    /\ pc = "running"
    /\ task[p] \in {"pending", "checked", "updating"}
    /\ task' = [task EXCEPT ![p] = "rejected"]
    /\ ioLog' = [ioLog EXCEPT ![p] = @ \o <<"throw">>]
    /\ UNCHANGED <<callVars, pc, fs, report, dryRun, onlyMarkup>>

\* The entry of a settled task in the aggregate result: the value the task
\* returned, or its rejection (the kinds gathered so far are lost with it).
settled(p) ==
    [ path |-> p,
      status |-> task[p],
      comments |-> IF task[p] = "fulfilled" THEN report[p] ELSE <<>> ]

\* A fail-fast join: returns as soon as one task has rejected.
UpdateReturn_FailFast ==
    /\ pc = "running"
    /\ \/ \A p \in Paths : task[p] = "fulfilled"
       \/ \E p \in Paths : task[p] = "rejected"
    /\ pc' = "returned"
    /\ out' = [p \in Paths |-> settled(p)]
    /\ UNCHANGED <<contents, out2, cur, depth, args, fs, task, report, ioLog,
                   dryRun, onlyMarkup>>

\* The join: every task has settled; one entry per path, in input order.
UpdateReturn ==
    /\ pc = "running"
    /\ \A p \in Paths : task[p] \in {"fulfilled", "rejected"}
    /\ pc' = "returned"
    /\ out' = [p \in Paths |-> settled(p)]
    /\ UNCHANGED <<contents, out2, cur, depth, args, fs, task, report, ioLog,
                   dryRun, onlyMarkup>>

NextUpdate ==
    \/ UpdateCall
    \/ \E p \in Paths :
          \/ TaskRemoveFile(p)
          \/ TaskNoRemoveFile(p)
          \/ TaskDetect(p)
          \/ TaskNoMatch(p)
          \/ TaskUpdate(p)
          \/ TaskFail(p)
    \/ UpdateReturn

SpecUpdate == InitUpdate /\ [][NextUpdate]_vars

---------------------------------------------------------------------------
(* The batch update on any list of paths: a file may be named by more than  *)
(* one path of the list.                                                    *)

ListContents ==
    { <<"a", NL, "b">>,
      <<Hash, Space, REMOVE_FILE, NL, "a", Space, Slash, Slash, Space, REMOVE_CURRENT_LINE, NL, "b">>,
      Join(<< NextLineMarked, CurrentLineMarked, <<"b">> >>) }

InitUpdateList ==
    /\ contents \in [Files -> ListContents]
    /\ fs = [f \in Files |-> [exists |-> TRUE, data |-> contents[f]]]
    /\ args \in [dryRun : {"true", "false"}, onlyMarkup : {"true", "false"},
                  filePaths : [Paths -> Files]]
    /\ dryRun = TRUE
    /\ onlyMarkup = FALSE
    /\ task = [p \in Paths |-> "idle"]
    /\ report = [p \in Paths |-> <<>>]
    /\ ioLog = [p \in Paths |-> <<>>]
    /\ pc = "start"
    /\ out = <<>>
    /\ out2 = <<>>
    /\ cur = <<>>
    /\ depth = 0

SpecUpdateList == InitUpdateList /\ [][NextUpdate]_vars

---------------------------------------------------------------------------
(* Specification of remove, mst.ts:143-147: one call, then a second call on *)
(* its result.  Contents are chunks joined by line breaks: a plain line, a  *)
(* line of each marker kind, and a component declaration with or without    *)
(* its marked closing line.                                                 *)

RemoveObserverChunk ==
    ObsComponent(<<Slash, Slash, Space, OBSERVER_BLOCK_START, NL>>, <<>>, <<>>,
                 <<Space, "=", Space, "observer", "(", "function", Space, "Foo">>,
                 <<"(", ")">>,
                 <<RBrace, ")", Space, Slash, Slash, Space, OBSERVER_BLOCK_END>>)

RemoveOpenObserverChunk ==
    ObsComponent(<<Slash, Slash, Space, OBSERVER_BLOCK_START, NL>>, <<>>, <<>>,
                 <<Space, "=", Space, "observer", "(", "function", Space, "Foo">>,
                 <<"(", ")">>,
                 <<RBrace, ")">>)

RemoveChunks ==
    { <<"a">>, CurrentLineMarked, NextLineMarked, BlockStartLine, BlockEndLine,
      RemoveObserverChunk, RemoveOpenObserverChunk }

InitRemove == InitCall(Texts(RemoveChunks, MaxRemoveChunks))

Remove ==
    /\ pc = "start"
    /\ remove(contents).ok
    /\ out' = remove(contents).v
    /\ pc' = "remove"
    /\ UNCHANGED <<contents, out2, cur, depth, fileVars>>

\* The call ends in RangeError: removeBlock or patchMSTObserverBlock never
\* returned.
RemoveOverflow ==
    /\ pc = "start"
    /\ ~remove(contents).ok
    /\ pc' = "RangeError"
    /\ UNCHANGED <<contents, out, out2, cur, depth, fileVars>>

RemoveAgain ==
    /\ pc = "remove"
    /\ out2' = remove(out).v
    /\ pc' = IF remove(out).ok THEN "removeTwice" ELSE "RangeErrorTwice"
    /\ UNCHANGED <<contents, out, cur, depth, fileVars>>

NextRemove == Remove \/ RemoveOverflow \/ RemoveAgain

SpecRemove == InitRemove /\ [][NextRemove]_vars

---------------------------------------------------------------------------
(* Specification of the 'new' command, part_002:131-383, from the flags to  *)
(* the boilerplate copy.  contents is what exists at targetPath when the    *)
(* command starts and fs what exists there now ("none", "file" or "dir");  *)
(* args holds the options of the command line; cur holds the locals yname,  *)
(* overwrite, git, packagerName and installDeps; ioLog lists the prompts    *)
(* asked and the calls made on the file system and the process.             *)

\* boolFlag is imported from ../tools/flag (part_002:22): the values a call
\* may return, boolean | undefined.
boolFlag(option) == { "true", "false", "undefined" }

\* part_002:142
useDefault(option) == cur.yname /\ option = "undefined"

\* What system.which finds: packager.availablePackagers(), part_002:263.
AvailablePackagers == { <<"npm">>, <<"yarn", "npm">> }

NewOptions ==
    [ y : {"undefined", "true"}, yes : {"undefined", "true"},
      overwrite : {"undefined", "true", "false"},
      git : {"undefined", "false"},
      packager : {"undefined", "yarn", "bogus"},
      installDeps : {"undefined"} ]

Unassigned == "unassigned"

InitNew ==
    /\ contents \in { "none", "file", "dir" }
    /\ fs = contents
    /\ args \in NewOptions
    /\ cur = [ yname |-> FALSE, overwrite |-> Unassigned, git |-> Unassigned,
               packagerName |-> Unassigned, installDeps |-> Unassigned ]
    /\ pc = "start"
    /\ ioLog = <<>>
    /\ out = <<>>
    /\ out2 = <<>>
    /\ depth = 0
    /\ task = <<>>
    /\ report = <<>>
    /\ dryRun = TRUE
    /\ onlyMarkup = FALSE

newFrame == <<contents, args, out, out2, depth, task, report, dryRun, onlyMarkup>>

\* filesystem.exists(targetPath): false, or the kind of what is there.
exists == fs # "none"

\* part_002:141, yname = boolFlag(options.y) || boolFlag(options.yes)
Toolbox ==
    /\ pc = "start"
    /\ \E a \in boolFlag(args.y), b \in boolFlag(args.yes) :
          cur' = [cur EXCEPT !.yname = (a = "true" \/ b = "true")]
    /\ pc' = "overwriteFlag"
    /\ UNCHANGED <<newFrame, fs, ioLog>>

\* part_002:219-220
OverwriteFlag ==
    /\ pc = "overwriteFlag"
    /\ \E flag \in boolFlag(args.overwrite) :
          cur' = [cur EXCEPT !.overwrite =
                      IF useDefault(args.overwrite) THEN "false" ELSE flag]
    /\ pc' = "promptOverwrite"
    /\ UNCHANGED <<newFrame, fs, ioLog>>

\* part_002:222-232: the confirm prompt, asked when the target exists and
\* overwrite is undefined.
PromptOverwrite ==
    /\ pc = "promptOverwrite"
    /\ IF exists /\ cur.overwrite = "undefined"
       THEN /\ \E answer \in {"true", "false"} :
                  cur' = [cur EXCEPT !.overwrite = answer]
            /\ ioLog' = Append(ioLog, "ask overwrite")
       ELSE UNCHANGED <<cur, ioLog>>
    /\ pc' = "checkOverwrite"
    /\ UNCHANGED <<newFrame, fs>>

\* part_002:234-239
ExitAlreadyExists ==
    /\ pc = "checkOverwrite"
    /\ exists /\ cur.overwrite = "false"
    /\ ioLog' = Append(ioLog, "exit(1)")
    /\ pc' = "exited"
    /\ UNCHANGED <<newFrame, fs, cur>>

PassOverwriteCheck_Always ==
    /\ pc = "checkOverwrite"
    /\ pc' = "promptGit"
    /\ UNCHANGED <<newFrame, fs, cur, ioLog>>

\* part_002:234, the condition false
PassOverwriteCheck ==
    /\ pc = "checkOverwrite"
    /\ ~(exists /\ cur.overwrite = "false")
    /\ pc' = "promptGit"
    /\ UNCHANGED <<newFrame, fs, cur, ioLog>>

\* part_002:242-257
PromptGit ==
    /\ pc = "promptGit"
    /\ LET git == IF useDefault(args.git) THEN "true" ELSE args.git
       IN IF git = "undefined"
          THEN /\ \E answer \in {"true", "false"} : cur' = [cur EXCEPT !.git = answer]
               /\ ioLog' = Append(ioLog, "ask git")
          ELSE /\ cur' = [cur EXCEPT !.git = git]
               /\ UNCHANGED ioLog
    /\ pc' = "packager"
    /\ UNCHANGED <<newFrame, fs>>

\* part_002:267-268
validatePackagerName(input) == input \in {"npm", "yarn", "pnpm"}

\* part_002:263-306: exit(1) on a packager that is invalid or not installed,
\* the select prompt when none was given.
Packager ==
    /\ pc = "packager"
    /\ \E availablePackagers \in AvailablePackagers :
         LET defaultPackagerName ==
                 IF includes(availablePackagers, "yarn") THEN "yarn" ELSE "npm"
             packagerName ==
                 IF useDefault(args.packager) THEN defaultPackagerName ELSE args.packager
         IN IF packagerName # "undefined"
               /\ (~validatePackagerName(packagerName)
                   \/ ~includes(availablePackagers, packagerName))
            THEN /\ ioLog' = Append(ioLog, "exit(1)")
                 /\ pc' = "exited"
                 /\ UNCHANGED cur
            ELSE IF packagerName = "undefined"
            THEN /\ \E k \in 1..Len(availablePackagers) :
                       cur' = [cur EXCEPT !.packagerName = availablePackagers[k]]
                 /\ ioLog' = Append(ioLog, "ask packagerName")
                 /\ pc' = "installDeps"
            ELSE /\ cur' = [cur EXCEPT !.packagerName = packagerName]
                 /\ pc' = "installDeps"
                 /\ UNCHANGED ioLog
    /\ UNCHANGED <<newFrame, fs>>

\* part_002:310-325
PromptInstallDeps ==
    /\ pc = "installDeps"
    /\ \E flag \in boolFlag(args.installDeps) :
         LET installDeps == IF useDefault(args.installDeps) THEN "true" ELSE flag
         IN IF installDeps = "undefined"
            THEN /\ \E answer \in {"true", "false"} :
                       cur' = [cur EXCEPT !.installDeps = answer]
                 /\ ioLog' = Append(ioLog, "ask installDeps")
            ELSE /\ cur' = [cur EXCEPT !.installDeps = installDeps]
                 /\ UNCHANGED ioLog
    /\ pc' = "overwrite"
    /\ UNCHANGED <<newFrame, fs>>

\* part_002:361-366; the removals of 369-372 are below boilerplatePath.
Overwrite ==
    /\ pc = "overwrite"
    /\ IF fs = "dir" /\ cur.overwrite = "true"
       THEN /\ fs' = "none"
            /\ ioLog' = Append(ioLog, "remove")
       ELSE UNCHANGED <<fs, ioLog>>
    /\ pc' = "copy"
    /\ UNCHANGED <<newFrame, cur>>

\* part_002:376-383: copyBoilerplate of ../tools/react-native makes the
\* target directory; over a file it may fail.
CopyBoilerplate ==
    /\ pc = "copy"
    /\ fs' \in (IF fs = "file" THEN {"file", "dir"} ELSE {"dir"})
    /\ ioLog' = Append(ioLog, "copyBoilerplate")
    /\ pc' = "copied"
    /\ UNCHANGED <<newFrame, cur>>

NextNew ==
    \/ Toolbox
    \/ OverwriteFlag
    \/ PromptOverwrite
    \/ ExitAlreadyExists
    \/ PassOverwriteCheck
    \/ PromptGit
    \/ Packager
    \/ PromptInstallDeps
    \/ Overwrite
    \/ CopyBoilerplate

SpecNew == InitNew /\ [][NextNew]_vars

---------------------------------------------------------------------------
(* Specification of find: fs is the tree under targetDir, a set of entries  *)
(* (relative path, kind); args holds targetDir and the optional matching.   *)

FindFiles ==
    { <<"app", "a.ts">>,
      <<"app", "b.json">>,
      <<".DS_Store">>,
      <<".git", "config">>,
      <<"node_modules", "m", "a.ts">>,
      <<"ios", "build", "x.o">>,
      <<"ios", "App.xcworkspace", "c.xml">>,
      <<"android", "app", "build", "a.ts">> }

\* The directories on the way to the files.
DirsOf(files) ==
    UNION { { SubSeq(f, 1, n) : n \in 1..(Len(f) - 1) } : f \in files }

TreeOf(files) ==
    { [path |-> f, kind |-> "file"] : f \in files }
    \cup { [path |-> d, kind |-> "dir"] : d \in DirsOf(files) }

FindDirs == { <<"proj">>, <<"tmp", "proj">> }

FindMatchings ==
    { Undefined,
      Supplied(<<>>),
      Supplied(<< Glob(TRUE, << {"node_modules"} >>, TRUE) >>),
      Supplied(<< Glob(FALSE, << {"a.ts"} >>, FALSE) >>),
      Supplied(<< Glob(FALSE, << {"a.ts"} >>, FALSE), Glob(TRUE, << {"app"} >>, TRUE) >>) }

InitFind ==
    /\ fs \in { TreeOf(files) : files \in SUBSET FindFiles }
    /\ args \in [ targetDir : FindDirs, matching : FindMatchings ]
    /\ pc = "start"
    /\ out = {}
    /\ contents = <<>>
    /\ out2 = <<>>
    /\ cur = <<>>
    /\ depth = 0
    /\ task = <<>>
    /\ report = <<>>
    /\ ioLog = <<>>
    /\ dryRun = TRUE
    /\ onlyMarkup = FALSE

Find ==
    /\ pc = "start"
    /\ out' = find(fs, args.targetDir, args.matching)
    /\ pc' = "find"
    /\ UNCHANGED <<contents, out2, cur, depth, fs, task, report, dryRun, onlyMarkup,
                   ioLog, args>>

NextFind == Find

SpecFind == InitFind /\ [][NextFind]_vars

---------------------------------------------------------------------------
(* Properties *)

Symbols(line) == { line[i] : i \in 1..Len(line) }

\* The elements of lines at the positions in K, in increasing position.
KeptInOrder(lines, K) ==
    [ j \in 1..Cardinality(K) |->
        lines[CHOOSE i \in K : Cardinality({ k \in K : k < i }) = j - 1] ]

\* C1: removeBlock terminates on every input: whatever the arrangement of
\* block-start and block-end marker lines, the recursion reaches a frame that
\* returns; it never runs until the call stack is exhausted.
C1_RemoveBlockTerminates == pc # "RangeError"

\* C2: sanitize is idempotent: sanitize(sanitize(x)) = sanitize(x) for every
\* content x.
C2_SanitizeIdempotent == pc = "sanitizeTwice" => out2 = out

\* C3: the output of sanitize contains none of the seven marker tokens of
\* CommentType.
C3_SanitizeLeavesNoMarker ==
    pc \in {"sanitize", "sanitizeTwice"} =>
        \A i \in 1..Len(out) : out[i] \notin CommentType

\* C4: removeCurrentLine is a stable filter: the output is the input's lines
\* without those containing the remove-current-line marker, every other line
\* (blank ones too) verbatim and in the original order, however many marker
\* lines there are.
C4_CurrentLineStableFilter ==
    pc = "removeCurrentLine" =>
        LET in == Split(contents)
            K == { i \in 1..Len(in) : REMOVE_CURRENT_LINE \notin Symbols(in[i]) }
            expected == KeptInOrder(in, K)
        IN /\ out = Join(expected)
           /\ K # {} => Split(out) = expected

C4_Witness ==
    /\ pc = "removeCurrentLine"
    /\ contents = Join(<<CurrentLineMarked, <<>>, <<"a">>, CurrentLineMarked, <<"b">> >>)
    /\ out = Join(<< <<>>, <<"a">>, <<"b">> >>)

\* C5: the output of removeCurrentLine never contains the remove-current-line
\* marker.
C5_NoCurrentLineMarkerLeft ==
    pc = "removeCurrentLine" => REMOVE_CURRENT_LINE \notin Symbols(out)

C5_Witness ==
    /\ pc = "removeCurrentLine"
    /\ Cardinality({ i \in 1..Len(contents) : contents[i] = REMOVE_CURRENT_LINE }) >= 2
    /\ out = <<"b">>

\* C6: removeNextLine keeps line i of the input iff line i does not contain
\* the remove-next-line marker and (i is the first line or line i-1 of the
\* input does not contain it); [marker-line, "b", "a"] yields ["a"].
C6_NextLineKeepRule ==
    pc = "removeNextLine" =>
        LET in == Split(contents)
            marked(i) == REMOVE_NEXT_LINE \in Symbols(in[i])
            K == { i \in 1..Len(in) : ~marked(i) /\ (i = 1 \/ ~marked(i - 1)) }
        IN /\ out = Join(KeptInOrder(in, K))
           /\ contents = Join(<<NextLineMarked, <<"b">>, <<"a">> >>) => out = <<"a">>

C6_Witness ==
    /\ pc = "removeNextLine"
    /\ contents = Join(<<NextLineMarked, <<"b">>, <<"a">> >>)
    /\ out = <<"a">>

\* Sequential, non-nested, well-ordered blocks: reading the lines top down,
\* start and end marker lines alternate, beginning with a start and ending
\* with an end.
IsStart(line) == REMOVE_BLOCK_START \in Symbols(line)
IsEnd(line) == REMOVE_BLOCK_END \in Symbols(line)
Opened(lines, i) ==
    Cardinality({ k \in 1..i : IsStart(lines[k]) })
        - Cardinality({ k \in 1..i : IsEnd(lines[k]) })
WellOrdered(lines) ==
    /\ \A i \in 1..Len(lines) : ~(IsStart(lines[i]) /\ IsEnd(lines[i]))
    /\ \A i \in 1..Len(lines) : Opened(lines, i) \in {0, 1}
    /\ Opened(lines, Len(lines)) = 0
Blocks(lines) == Cardinality({ k \in 1..Len(lines) : IsStart(lines[k]) })

\* C7: removeBlock removes every one of k sequential, non-nested, well-ordered
\* blocks: the output is the input without the lines of the k inclusive
\* ranges, every line outside them unchanged and in order;
\* ["a", START, "b", END, "a"] yields ["a", "a"].
C7_RemovesEveryBlock ==
    pc = "removeBlock" /\ WellOrdered(Split(contents)) =>
        LET in == Split(contents)
            K == { i \in 1..Len(in) :
                     ~IsStart(in[i]) /\ ~IsEnd(in[i]) /\ Opened(in, i) = 0 }
        IN /\ out = Join(KeptInOrder(in, K))
           /\ contents = Join(<< <<"a">>, BlockStartLine, <<"b">>, BlockEndLine, <<"a">> >>)
                => out = Join(<< <<"a">>, <<"a">> >>)

C7_Witness ==
    /\ pc = "removeBlock"
    /\ WellOrdered(Split(contents))
    /\ Blocks(Split(contents)) = 2
    /\ out = Join(<< <<"a">>, <<"b">> >>)

\* Runs of spaces collapsed to one space.
RECURSIVE Squeeze(_)
Squeeze(t) ==
    IF Len(t) < 2 THEN t
    ELSE IF t[1] = Space /\ t[2] = Space THEN Squeeze(Tail(t))
    ELSE <<t[1]>> \o Squeeze(Tail(t))

StartMarkerLine == <<Slash, Slash, Space, OBSERVER_BLOCK_START, NL>>
ObserverWrapper == <<Space, "=", Space, "observer", "(", "function", Space, "Foo">>
MarkedClosing == <<RBrace, ")", Space, Slash, Slash, Space, OBSERVER_BLOCK_END>>
ReactFC == <<":", Space, "React", ".", "FC", "<", "Props", ">">>

\* export const Foo: React.FC<Props> = observer(function Foo(props) { ...
\* under a start marker, closed by }) // @mst observer-block-end
ObserverExample ==
    ObsComponent(StartMarkerLine, <<"export", Space>>, ReactFC, ObserverWrapper,
                 <<"(", "props", ")">>, MarkedClosing)

\* C8: a start-marker line followed by
\* '(export) const <name>(: <annotation>) = observer(function <inner>(<params>)'
\* becomes '(export) const <name>(: <annotation>) = (<params>) =>', keeping
\* the export keyword, the name and the annotation, and the marked closing
\* line becomes '}'; in particular for
\* 'export const Foo: React.FC<Props> = observer(function Foo(props) {'.
C8_ObserverRewritePreserves ==
    pc = "patchMSTObserverBlock" =>
        /\ \A e \in ObsExports, a \in ObsAnnotations, p \in { <<"(", "props", ")">>, <<"(", ")">> } :
              contents = ObsComponent(StartMarkerLine, e, a, ObserverWrapper, p, MarkedClosing)
              => Squeeze(out) =
                    e \o <<"const", Space, "Foo">> \o a \o <<Space, "=", Space>> \o p
                      \o <<Space, "=", ">">> \o ObsBody \o <<RBrace>>
        /\ contents = ObserverExample
              => out = <<"export", Space, "const", Space, "Foo">> \o ReactFC
                         \o <<Space, "=", Space, "(", "props", ")", Space, "=", ">">>
                         \o ObsBody \o <<RBrace>>

RemoveModeApply == args.dryRun = "false" /\ args.onlyMarkup \in {"false", "undefined"}
SanitizeModeApply == args.dryRun = "false" /\ args.onlyMarkup = "true"

\* C9: whole-file removal takes priority: in remove mode with apply, a file
\* whose content has the remove-file marker is deleted, the only file system
\* call issued for it is the removal (no rewriter, no content rewrite), and
\* its report entry lists only the remove-file kind, whatever other markers
\* it has.
C9_RemoveFileHasPriority ==
    \A p \in Paths :
        pc \in {"running", "returned"} /\ RemoveModeApply
          /\ includes(contents[p], REMOVE_FILE) =>
            /\ ioLog[p] \in { <<>>, <<"remove">>, <<"throw">> }
            /\ fs[p].exists => fs[p].data = contents[p]
            /\ task[p] = "fulfilled" =>
                 /\ ~fs[p].exists
                 /\ ioLog[p] = <<"remove">>
                 /\ report[p] = <<REMOVE_FILE>>
            /\ pc = "returned" /\ ioLog[p] # <<"throw">> => task[p] = "fulfilled"

C9_Witness ==
    /\ pc = "returned"
    /\ RemoveModeApply
    /\ \E p \in Paths :
          /\ includes(contents[p], REMOVE_FILE)
          /\ includes(contents[p], REMOVE_CURRENT_LINE)
          /\ ~fs[p].exists
          /\ report[p] = <<REMOVE_FILE>>
    /\ \E q \in Paths : fs[q].exists /\ fs[q].data # contents[q]

\* C10: in sanitize mode with apply, a file whose content has the remove-file
\* marker is never deleted: it survives with content sanitize(original), all
\* directive markers stripped and the rest of the content intact.
C10_SanitizeModeKeepsFile ==
    \A p \in Paths :
        pc = "returned" /\ SanitizeModeApply /\ includes(contents[p], REMOVE_FILE)
          /\ task[p] = "fulfilled" =>
            /\ fs[p].exists
            /\ fs[p].data = sanitize(contents[p])
            /\ Symbols(fs[p].data) \cap CommentType = {}

\* The file system calls that change a file.
Mutations == { "write", "update", "remove" }
Calls(p) == { ioLog[p][i] : i \in 1..Len(ioLog[p]) }
Untouched(p) ==
    /\ fs[p] = [exists |-> TRUE, data |-> contents[p]]
    /\ Calls(p) \cap Mutations = {}

\* C11: a dry run performs zero file system mutations: whatever the files
\* and whichever the mode, during and after update with dryRun = true every
\* file exists with exactly its original content and no write, patch or
\* delete has been issued.
C11_DryRunMutatesNothing ==
    args.dryRun = "true" => \A p \in Paths : Untouched(p)

C11_Witness ==
    /\ pc = "returned"
    /\ args.dryRun = "true"
    /\ args.onlyMarkup = "false"
    /\ \E p \in Paths : out[p].comments = <<REMOVE_FILE>>
    /\ \E q \in Paths : Len(out[q].comments) >= 2

\* The kinds a run reports for a file of content c. The run's dryRun flag
\* is no parameter of it.
kindsFound(c, markup) ==
    IF includes(c, REMOVE_FILE) THEN <<REMOVE_FILE>>
    ELSE IF markup /\ ~HasMatch(mstMarkupRegex, c) THEN <<>>
    ELSE SelectSeq(operations, LAMBDA o : includes(c, o))

NoThrow(p) == "throw" \notin Calls(p)

\* C12: the report of a dry run is identical to the report of an apply run
\* on the same initial file system and mode: for every path whose file
\* system calls all succeed, the entry returned is fulfilled and lists the
\* kinds found in the original content, whether dryRun is true or false.
C12_DryRunReportEqualsApplyReport ==
    pc = "returned" =>
        \A p \in Paths :
            NoThrow(p) =>
                out[p] = [ path |-> p, status |-> "fulfilled",
                           comments |-> kindsFound(contents[p], onlyMarkup) ]

\* What a run with the flags dry and markup does with a file of content c
\* when that file is the only one and none of its file system calls fails.
aloneRewrite(c, markup) ==
    IF markup THEN [ok |-> TRUE, v |-> sanitize(c)] ELSE remove(c)

aloneTouches(c, dry, markup) ==
    /\ ~dry
    /\ \/ includes(c, REMOVE_FILE)
       \/ IF markup THEN HasMatch(mstMarkupRegex, c)
          ELSE \E k \in 1..Len(operations) : includes(c, operations[k])

aloneRejects(c, dry, markup) ==
    /\ aloneTouches(c, dry, markup)
    /\ ~includes(c, REMOVE_FILE)
    /\ ~aloneRewrite(c, markup).ok

aloneFile(c, dry, markup) ==
    IF ~aloneTouches(c, dry, markup) \/ aloneRejects(c, dry, markup)
    THEN [exists |-> TRUE, data |-> c]
    ELSE IF includes(c, REMOVE_FILE) /\ ~markup THEN [exists |-> FALSE, data |-> <<>>]
    ELSE [exists |-> TRUE, data |-> aloneRewrite(c, markup).v]

aloneEntry(p, c, dry, markup) ==
    IF aloneRejects(c, dry, markup)
    THEN [ path |-> p, status |-> "rejected", comments |-> <<>> ]
    ELSE [ path |-> p, status |-> "fulfilled", comments |-> kindsFound(c, markup) ]

\* C13: per-file failure isolation: a file whose processing fails on a file
\* system call gets a rejected entry in the aggregate result and nothing is
\* raised to the caller of update; every other file ends with the content
\* and the entry it would have if it were processed alone.
C13_FailureIsolated ==
    /\ pc \in {"start", "running", "returned"}
    /\ pc = "returned" =>
          \A p \in Paths :
              /\ ~NoThrow(p) => out[p] = [ path |-> p, status |-> "rejected",
                                           comments |-> <<>> ]
              /\ NoThrow(p) =>
                    /\ out[p] = aloneEntry(p, contents[p], dryRun, onlyMarkup)
                    /\ fs[p] = aloneFile(contents[p], dryRun, onlyMarkup)

C13_Witness ==
    /\ pc = "returned"
    /\ \E p, q \in Paths :
          /\ ~NoThrow(p)
          /\ out[p].status = "rejected"
          /\ NoThrow(q)
          /\ out[q].status = "fulfilled"
          /\ out[q].comments # <<>>
          /\ fs[q] # [exists |-> TRUE, data |-> contents[q]]

Terminal == { "fulfilled", "rejected" }

\* C14: settle-all join: when update has returned, every per-file task is
\* in a terminal state (fulfilled or rejected), also when some task
\* rejected before the others were done, and the aggregate result has
\* exactly one entry per input path, carrying that task's outcome.
C14_SettleAllJoin ==
    pc = "returned" =>
        /\ \A p \in Paths : task[p] \in Terminal
        /\ DOMAIN out = Paths
        /\ \A p \in Paths : out[p].path = p /\ out[p].status = task[p]

C14_Witness ==
    /\ pc = "returned"
    /\ \E p, q \in Paths :
          /\ p < q
          /\ task[p] = "rejected"
          /\ task[q] = "fulfilled"
          /\ "update" \in Calls(q)

HasStartLine(c) == \E i \in 1..Len(Split(c)) : IsStart(Split(c)[i])
HasEndLine(c) == \E i \in 1..Len(Split(c)) : IsEnd(Split(c)[i])

\* C15: an unmatched block marker is inert: on a content with block-start
\* marker lines and no block-end marker line, or with block-end marker lines
\* and no block-start marker line, removeBlock raises no error and returns
\* the content unchanged.
C15_UnmatchedMarkerInert ==
    HasStartLine(contents) # HasEndLine(contents) =>
        /\ pc # "RangeError"
        /\ pc = "removeBlock" => out = contents

C15_Witness ==
    /\ pc = "removeBlock"
    /\ Cardinality({ i \in 1..Len(Split(contents)) : IsStart(Split(contents)[i]) }) = 2
    /\ ~HasEndLine(contents)
    /\ Len(Split(contents)) >= 4
    /\ out = contents

C15_WitnessEndOnly ==
    /\ pc = "removeBlock"
    /\ HasEndLine(contents)
    /\ ~HasStartLine(contents)
    /\ out = contents

\* The positions of the first start and the first end marker line (0 when
\* there is none).
FirstStart(c) ==
    LET S == { i \in 1..Len(Split(c)) : IsStart(Split(c)[i]) }
    IN IF S = {} THEN 0 ELSE CHOOSE i \in S : \A j \in S : i <= j
FirstEnd(c) ==
    LET E == { i \in 1..Len(Split(c)) : IsEnd(Split(c)[i]) }
    IN IF E = {} THEN 0 ELSE CHOOSE i \in E : \A j \in E : i <= j

\* C16: a block start found after its end is inert: when the first block-end
\* marker line precedes the first block-start marker line, removeBlock
\* raises no error and returns the content unchanged, no line deleted.
C16_StartAfterEndInert ==
    FirstEnd(contents) > 0 /\ FirstEnd(contents) < FirstStart(contents) =>
        /\ pc # "RangeError"
        /\ pc = "removeBlock" => out = contents

NoMarker(c) == Symbols(c) \cap CommentType = {}

LeftAlone(p) ==
    /\ Untouched(p)
    /\ task[p] # "rejected"
    /\ pc = "returned" =>
          out[p] = [ path |-> p, status |-> "fulfilled", comments |-> <<>> ]

FirstMst(c) ==
    LET M == { k \in 1..Len(c) : c[k] \in MstSyms }
    IN IF M = {} THEN 0 ELSE CHOOSE k \in M : \A j \in M : k <= j

\* The marker at k stands in a line comment: '//' or '#', at most one blank,
\* the marker. The value is the position of the opener, 0 when there is none.
LineCommentAt(c, k) ==
    LET m == IF k > 1 /\ c[k - 1] = Space THEN k - 1 ELSE k
    IN IF m >= 3 /\ c[m - 2] = Slash /\ c[m - 1] = Slash THEN m - 2
       ELSE IF m >= 2 /\ c[m - 1] = Hash THEN m - 1
       ELSE 0

\* The marker at k stands in a slash-delimited comment closed on its line,
\* with or without a brace before the opening slash.
BlockCommentAt(c, k) ==
    IF /\ k >= 2
       /\ c[k - 1] = Slash
       /\ \E j \in (k + 1)..Len(c) :
              c[j] = Slash /\ \A i \in k..j : c[i] # NL
    THEN (IF k >= 3 /\ c[k - 2] = LBrace THEN k - 2 ELSE k - 1)
    ELSE 0

CommentAt(c, k) ==
    IF LineCommentAt(c, k) > 0 THEN LineCommentAt(c, k) ELSE BlockCommentAt(c, k)

\* Text with no comment opener and no marker in it.
IsCode(t) ==
    /\ \A i \in 1..Len(t) : t[i] \notin MstSyms \cup {Hash}
    /\ \A i \in 1..(Len(t) - 1) : ~(t[i] = Slash /\ t[i + 1] = Slash)

StartsWith(t, prefix) ==
    Len(t) >= Len(prefix) /\ SubSeq(t, 1, Len(prefix)) = prefix

\* C19: sanitize does not alter surrounding code: when the first marker of
\* the content stands in a directive comment, the code before that comment
\* is in the output exactly as it was.
C19_SanitizeKeepsCodeBefore ==
    pc = "sanitize" /\ FirstMst(contents) > 0
      /\ CommentAt(contents, FirstMst(contents)) > 0
      /\ IsCode(SubSeq(contents, 1, CommentAt(contents, FirstMst(contents)) - 1)) =>
        StartsWith(out, SubSeq(contents, 1, CommentAt(contents, FirstMst(contents)) - 1))

FilesOf(tree) == { e.path : e \in { x \in tree : x.kind = "file" } }

\* The relative path is one the default list excludes: a .DS_Store entry, or
\* an entry that is, or lies below, a version-control, editor-config,
\* dependency or native-build directory.
DefaultExcluded(rel) ==
    \/ rel[Len(rel)] = ".DS_Store"
    \/ \E i \in 1..Len(rel) : rel[i] \in {".expo", ".git", ".vscode", "node_modules"}
    \/ \E i \in 1..(Len(rel) - 1) :
          \/ rel[i] = "ios" /\ rel[i + 1] \in {"build", "Pods"} \cup XcWorkspaces
          \/ rel[i] = "android" /\ rel[i + 1] = "build"
    \/ \E i \in 1..(Len(rel) - 2) :
          rel[i] = "android" /\ rel[i + 1] = "app" /\ rel[i + 2] = "build"

\* C20: find returns only regular files of the tree under targetDir, each
\* as targetDir joined with its relative path; with no matching list it
\* returns the files the default exclusions leave, and with a matching list
\* the files that list alone accepts, no default exclusion merged in.
C20_FindContract ==
    pc = "find" =>
        /\ \A r \in out : \E f \in FilesOf(fs) : r = args.targetDir \o f
        /\ ~args.matching.given =>
              out = { args.targetDir \o f :
                        f \in { x \in FilesOf(fs) : ~DefaultExcluded(x) } }
        /\ args.matching.given =>
              out = { args.targetDir \o f :
                        f \in { x \in FilesOf(fs) :
                                   performMatch(args.matching.list, x, 1, FALSE, FALSE) } }

C20_Witness ==
    /\ pc = "find"
    /\ args.targetDir = <<"tmp", "proj">>
    /\ args.matching = Supplied(<< Glob(TRUE, << {"node_modules"} >>, TRUE) >>)
    /\ [path |-> <<"node_modules", "m", "a.ts">>, kind |-> "file"] \in fs
    /\ <<"tmp", "proj", "node_modules", "m", "a.ts">> \notin out
    /\ <<"tmp", "proj", ".git", "config">> \in out
    /\ <<"tmp", "proj", "app", "a.ts">> \in out

C20_WitnessDefault ==
    /\ pc = "find"
    /\ args.matching = Undefined
    /\ FilesOf(fs) = FindFiles
    /\ out = { args.targetDir \o <<"app", "a.ts">>, args.targetDir \o <<"app", "b.json">> }

\* C21: two consecutive remove-next-line marker lines each delete their own
\* following line of the input and nothing more: when lines i and i+1 are
\* the only marker lines, the output is the input without lines i, i+1 and
\* i+2; [marker, marker, "a", "b"] yields ["b"].
C21_ConsecutiveNextLineMarkers ==
    pc = "removeNextLine" =>
        LET in == Split(contents)
            marked(i) == REMOVE_NEXT_LINE \in Symbols(in[i])
        IN /\ \A i \in 1..(Len(in) - 1) :
                 { k \in 1..Len(in) : marked(k) } = {i, i + 1} =>
                     out = Join(KeptInOrder(in, (1..Len(in)) \ {i, i + 1, i + 2}))
           /\ contents = Join(<<NextLineMarked, NextLineMarked, <<"a">>, <<"b">> >>)
                 => out = <<"b">>

C21_Witness ==
    /\ pc = "removeNextLine"
    /\ contents = Join(<<NextLineMarked, NextLineMarked, <<"a">>, <<"b">> >>)
    /\ out = <<"b">>

\* C22: the closing-line rewrite and the start rewrite are independent: a
\* content with a marked closing line and no matching start signature comes
\* back with every marked closing line rewritten to '}', and a content with
\* a matching start signature and no marked closing line comes back with
\* every start signature rewritten.
C22_ObserverRewritesIndependent ==
    pc = "patchMSTObserverBlock" =>
        /\ HasMatch(endBlockRegex, contents) /\ ~HasMatch(startBlockRegex, contents) =>
              out = ReplaceAll(endBlockRegex, endBlockReplacement, contents, 1)
        /\ HasMatch(startBlockRegex, contents) /\ ~HasMatch(endBlockRegex, contents) =>
              out = ReplaceAll(startBlockRegex, startBlockReplacement, contents, 1)

\* The number of matches a global replace of pattern p finds in s.
CountMatches(p, s) ==
    LET marked == ReplaceAll(p, <<Txt("<match>")>>, s, 1)
    IN Cardinality({ i \in 1..Len(marked) : marked[i] = "<match>" })

\* C23: all occurrences are transformed: for a content with k >= 1 observer
\* blocks (k matches of the start pattern and k matches of the closing
\* pattern), the output of patchMSTObserverBlock has no match of the start
\* pattern and no match of the closing pattern.
C23_AllObserverBlocksRewritten ==
    pc = "patchMSTObserverBlock"
      /\ CountMatches(startBlockRegex, contents) >= 1
      /\ CountMatches(startBlockRegex, contents) = CountMatches(endBlockRegex, contents) =>
        /\ ~HasMatch(startBlockRegex, out)
        /\ ~HasMatch(endBlockRegex, out)

\* C24 as stated: patchMSTObserverBlock terminates because a replacement
\* never creates a new match: the content a pass ends with has no match of
\* the start pattern and no match of the closing pattern.
C24_NoPassCreatesMatch ==
    pc = "patch" /\ hasObserverBlock(cur) =>
        /\ ~HasMatch(startBlockRegex, patchFrame(cur).updateContents)
        /\ ~HasMatch(endBlockRegex, patchFrame(cur).updateContents)

\* C24 amended: patchMSTObserverBlock terminates on every input: a pass
\* that is followed by another pass ends with a strictly shorter content
\* than it started with, and the recursion ends within the frames at hand.
C24_EveryPassShrinks ==
    pc = "patch" /\ patchFrame(cur).recurse =>
        /\ Len(patchFrame(cur).updateContents) < Len(cur)
        /\ depth < MaxStack

C24_Witness ==
    /\ pc = "patchMSTObserverBlock"
    /\ depth >= 2
    /\ Len(out) < Len(contents)

\* The tasks that have accessed file f, and the mutating calls issued on f.
TasksOn(f) ==
    { p \in Paths : file(p) = f /\ (task[p] \in {"checked", "updating", "fulfilled"}
                                      \/ Calls(p) # {}) }
MutatingCalls(p) == Cardinality({ i \in 1..Len(ioLog[p]) : ioLog[p][i] \in Mutations })
RECURSIVE SumMutatingCalls(_)
SumMutatingCalls(P) ==
    IF P = {} THEN 0
    ELSE LET p == CHOOSE x \in P : TRUE
         IN MutatingCalls(p) + SumMutatingCalls(P \ {p})
MutationsOf(f) == SumMutatingCalls({ p \in Paths : file(p) = f })

OneTaskPerFile ==
    \A f \in Files : MutationsOf(f) <= 1 /\ Cardinality(TasksOn(f)) <= 1

\* C25 as stated: for every list of file paths, under every interleaving of
\* the per-file tasks, no file is mutated more than once and no file is
\* read by more than one task.
C25_NoDoubleMutation == pc \in {"running", "returned"} => OneTaskPerFile

DistinctPaths == \A p, q \in Paths : file(p) = file(q) => p = q

\* C25 amended: for every list of distinct file paths, under every
\* interleaving of the per-file tasks, no file is mutated more than once
\* and no file is read by more than one task.
C25_NoDoubleMutationOfDistinctPaths ==
    pc \in {"running", "returned"} /\ (\A p, q \in Paths : args.filePaths[p] = args.filePaths[q] => p = q)
        => OneTaskPerFile

C25_Witness ==
    /\ pc = "returned"
    /\ DistinctPaths
    /\ args.filePaths[1] # 1
    /\ \A f \in Files : MutationsOf(f) = 1

\* The lines of a text; the empty text has none.
LinesOf(c) == IF c = <<>> THEN <<>> ELSE Split(c)

\* a is b with some elements left out.
RECURSIVE IsSubsequence(_, _)
IsSubsequence(a, b) ==
    IF a = <<>> THEN TRUE
    ELSE IF b = <<>> THEN FALSE
    ELSE IF Head(a) = Head(b) THEN IsSubsequence(Tail(a), Tail(b))
    ELSE IsSubsequence(a, Tail(b))

\* C26: postcondition of removeBlock: whenever it returns, its output does
\* not have both a block-start marker line and a block-end marker line,
\* and the lines of the output are a subsequence of the lines of the input.
C26_RemoveBlockPostcondition ==
    pc = "removeBlock" =>
        /\ ~(HasStartLine(out) /\ HasEndLine(out))
        /\ IsSubsequence(LinesOf(out), LinesOf(contents))

C26_Witness ==
    /\ pc = "removeBlock"
    /\ depth >= 2
    /\ HasStartLine(out)
    /\ Len(LinesOf(out)) + 4 <= Len(LinesOf(contents))

C28_DefaultIsDryRun ==
    /\ pc # "start" /\ args.dryRun = "undefined" => dryRun
    /\ pc # "start" /\ args.onlyMarkup = "undefined" => ~onlyMarkup
    /\ args.dryRun # "false" => \A p \in Paths : Untouched(p)

\* A call without dryRun and onlyMarkup returned, having found a file to
\* delete and a file to rewrite.
C28_Witness ==
    /\ pc = "returned"
    /\ args.dryRun = "undefined"
    /\ args.onlyMarkup = "undefined"
    /\ \E p \in Paths : out[p].comments = <<REMOVE_FILE>>
    /\ \E q \in Paths : Len(out[q].comments) >= 2

\* C29: sanitize never removes or adds a line break: the output has as many
\* lines as the input, and every line of the input that holds no '@mst' text
\* is the line at the same position of the output.
C29_SanitizeKeepsLines ==
    pc = "sanitize" =>
        /\ Len(Split(out)) = Len(Split(contents))
        /\ \A i \in 1..Len(Split(contents)) :
               Symbols(Split(contents)[i]) \cap MstSyms = {} =>
                   /\ i <= Len(Split(out))
                   /\ Split(out)[i] = Split(contents)[i]

\* C30: in the 'new' command an existing target directory is removed only
\* when overwrite is true; when the target exists and overwrite is false
\* (by flag, by the default under --yes, or by the answer to the prompt) the
\* command has exited with code 1 without removing the target and without
\* copying the boilerplate.
BeforeOverwriteCheck == { "start", "overwriteFlag", "promptOverwrite", "checkOverwrite" }

C30_OverwriteGuardsRemoval ==
    /\ includes(ioLog, "remove") => cur.overwrite = "true" /\ contents = "dir"
    /\ contents # "none" /\ cur.overwrite = "false" /\ pc \notin BeforeOverwriteCheck =>
          /\ pc = "exited"
          /\ ioLog[Len(ioLog)] = "exit(1)"
          /\ ~includes(ioLog, "remove")
          /\ ~includes(ioLog, "copyBoilerplate")
          /\ fs = contents

\* The target directory existed, no overwrite flag decided, the prompt was
\* answered no and the command exited.
C30_Witness ==
    /\ pc = "exited"
    /\ contents = "dir"
    /\ fs = "dir"
    /\ cur.overwrite = "false"
    /\ ioLog = <<"ask overwrite", "exit(1)">>

====
